---- MODULE Spec2Model ----
(***************************************************************************)
(* ViltImageProcessorFast._preprocess                                      *)
(* (src/transformers/models/vilt/image_processing_vilt_fast.py).           *)
(*                                                                         *)
(* The Python floats of the resize arithmetic are IEEE 754 doubles: each   *)
(* float operation of lines 117-137 is computed exactly on integers of     *)
(* arbitrary size and rounded to 53 bits, to nearest, ties to even.        *)
(***************************************************************************)
EXTENDS Integers, Sequences, FiniteSets

\* ------------------------------------------------------------------ bounds
MaxDim == 12
MaxS == 11
NegS == 1
MaxD == 3
MaxBatch == 3
MaxBatchS == 2
MaxBatchD == 2

\* --------------------------------------------------------- program constants
MAX_LONGER_EDGE == 1333
MAX_SHORTER_EDGE == 800
DefaultShortestEdge == 384
DefaultSizeDivisor == 32

\* size_divisor is Optional[int]: << >> is None, <<d>> is the integer d.
None == << >>
Some(x) == <<x>>

\* ------------------------------------------- Python floats (IEEE doubles)
\* A natural number of any size: its digits in base 2^15, lowest first, no
\* leading zero digit; << >> is 0.
LimbBits == 15
Base == 2 ^ LimbBits
\* The significand of a double has 53 bits.
Precision == 53

Abs(x) == IF x < 0 THEN 0 - x ELSE x

RECURSIVE Trim(_)
Trim(a) == IF Len(a) > 0 /\ a[Len(a)] = 0 THEN Trim(SubSeq(a, 1, Len(a) - 1)) ELSE a

Limb(a, i) == IF i >= 1 /\ i <= Len(a) THEN a[i] ELSE 0

\* 0 <= n < 2^31
BigOfNat(n) == Trim(<<n % Base, (n \div Base) % Base, n \div (Base * Base)>>)
\* a < 2^31
BigToNat(a) == Limb(a, 1) + Limb(a, 2) * Base + Limb(a, 3) * Base * Base

RECURSIVE BigCmpFrom(_, _, _)
BigCmpFrom(a, b, i) ==
    IF i = 0 THEN 0
    ELSE IF a[i] > b[i] THEN 1
    ELSE IF a[i] < b[i] THEN 0 - 1
    ELSE BigCmpFrom(a, b, i - 1)
\* 1, 0, -1 as a > b, a = b, a < b
BigCmp(a, b) ==
    IF Len(a) > Len(b) THEN 1
    ELSE IF Len(a) < Len(b) THEN 0 - 1
    ELSE BigCmpFrom(a, b, Len(a))

RECURSIVE BigAddFrom(_, _, _, _, _)
BigAddFrom(a, b, i, carry, acc) ==
    IF i > Len(a) /\ i > Len(b)
    THEN IF carry = 0 THEN acc ELSE Append(acc, carry)
    ELSE BigAddFrom(a, b, i + 1, (Limb(a, i) + Limb(b, i) + carry) \div Base,
                    Append(acc, (Limb(a, i) + Limb(b, i) + carry) % Base))
BigAdd(a, b) == BigAddFrom(a, b, 1, 0, << >>)

RECURSIVE BigSubFrom(_, _, _, _, _)
BigSubFrom(a, b, i, borrow, acc) ==
    IF i > Len(a) THEN Trim(acc)
    ELSE IF a[i] - Limb(b, i) - borrow < 0
    THEN BigSubFrom(a, b, i + 1, 1, Append(acc, a[i] - Limb(b, i) - borrow + Base))
    ELSE BigSubFrom(a, b, i + 1, 0, Append(acc, a[i] - Limb(b, i) - borrow))
\* a - b for a >= b
BigSub(a, b) == BigSubFrom(a, b, 1, 0, << >>)

RECURSIVE BigMulSmallFrom(_, _, _, _, _)
BigMulSmallFrom(a, d, i, carry, acc) ==
    IF i > Len(a)
    THEN IF carry = 0 THEN acc ELSE Append(acc, carry)
    ELSE BigMulSmallFrom(a, d, i + 1, (a[i] * d + carry) \div Base,
                         Append(acc, (a[i] * d + carry) % Base))
\* a * d for 0 <= d <= 2^15
BigMulSmall(a, d) == IF d = 0 THEN << >> ELSE BigMulSmallFrom(a, d, 1, 0, << >>)

\* a * 2^(15 n)
ShiftLimbs(a, n) ==
    IF a = << >> THEN << >>
    ELSE [i \in 1 .. Len(a) + n |-> IF i <= n THEN 0 ELSE a[i - n]]

RECURSIVE BigMulFrom(_, _, _, _)
BigMulFrom(a, b, j, acc) ==
    IF j > Len(b) THEN acc
    ELSE BigMulFrom(a, b, j + 1, BigAdd(acc, ShiftLimbs(BigMulSmall(a, b[j]), j - 1)))
BigMul(a, b) == BigMulFrom(a, b, 1, << >>)

\* a * 2^bits
BigShl(a, bits) == ShiftLimbs(BigMulSmall(a, 2 ^ (bits % LimbBits)), bits \div LimbBits)

RECURSIVE BigDivSmallFrom(_, _, _, _, _)
BigDivSmallFrom(a, d, i, rem, acc) ==
    IF i = 0 THEN Trim(acc)
    ELSE BigDivSmallFrom(a, d, i - 1, (rem * Base + a[i]) % d,
                         <<(rem * Base + a[i]) \div d>> \o acc)
\* a \div d for 0 < d <= 2^15
BigDivSmall(a, d) == BigDivSmallFrom(a, d, Len(a), 0, << >>)

\* a \div 2^bits
BigShr(a, bits) ==
    IF bits \div LimbBits >= Len(a) THEN << >>
    ELSE BigDivSmall(SubSeq(a, bits \div LimbBits + 1, Len(a)), 2 ^ (bits % LimbBits))

RECURSIVE SmallBitLen(_)
SmallBitLen(x) == IF x = 0 THEN 0 ELSE 1 + SmallBitLen(x \div 2)
\* The number of bits of a.
BitLen(a) == IF a = << >> THEN 0 ELSE LimbBits * (Len(a) - 1) + SmallBitLen(a[Len(a)])

\* <<q, q * b>> for the largest digit q with q * b <= r, found down from an
\* estimate q with its product p = q * b.
RECURSIVE DigitFrom(_, _, _, _)
DigitFrom(q, p, r, b) ==
    IF BigCmp(p, r) > 0 THEN DigitFrom(q - 1, BigSub(p, b), r, b) ELSE <<q, p>>

\* The estimate of the next quotient digit from the top digits of the
\* remainder r and of the divisor b, at most 2 too large when the top digit
\* of b is at least 2^14.
Estimate(r, b) ==
    IF (Limb(r, Len(b) + 1) * Base + Limb(r, Len(b))) \div b[Len(b)] > Base - 1
    THEN Base - 1
    ELSE (Limb(r, Len(b) + 1) * Base + Limb(r, Len(b))) \div b[Len(b)]

\* Long division in base 2^15 of a by b, whose top digit is at least 2^14:
\* <<quotient, remainder>>, digit i of a brought down into the remainder r.
RECURSIVE BigDivFrom(_, _, _, _, _)
BigDivNext(a, b, i, r, acc, d) ==
    BigDivFrom(a, b, i - 1, BigSub(r, d[2]), <<d[1]>> \o acc)
BigDivDigit(a, b, i, r, acc, q) ==
    BigDivNext(a, b, i, r, acc, DigitFrom(q, BigMulSmall(b, q), r, b))
BigDivStep(a, b, i, r, acc) == BigDivDigit(a, b, i, r, acc, Estimate(r, b))
BigDivFrom(a, b, i, r, acc) ==
    IF i = 0 THEN <<Trim(acc), r>>
    ELSE BigDivStep(a, b, i, Trim(<<a[i]>> \o r), acc)

BigDivResult(d) == <<d[1], d[2] # << >>>>
BigDivNormal(a, b) == BigDivResult(BigDivFrom(a, b, Len(a), << >>, << >>))
\* <<a \div b, whether a remainder is left>> for b > 0; low zero digits
\* that a and b share are cancelled first.
RECURSIVE BigDiv(_, _)
BigDiv(a, b) ==
    IF a # << >> /\ a[1] = 0 /\ b[1] = 0 THEN BigDiv(Tail(a), Tail(b))
    ELSE BigDivNormal(BigShl(a, LimbBits - SmallBitLen(b[Len(b)])),
                      BigShl(b, LimbBits - SmallBitLen(b[Len(b)])))

\* A double is <<sign, significand, exponent>>: sign * significand * 2^exponent
\* with a significand of exactly 53 bits; zero is <<0, << >>, 0>>.
FloatZero == <<0, << >>, 0>>

\* Rounding to nearest, ties to even, of the number M * 2^e (plus a positive
\* amount below one unit of M when sticky) to a 53-bit significand:
\* <<significand, the shift e grows by>>.  q is M without its low drop
\* bits, c compares those bits with half a unit of q.
RoundCarry(q, drop) ==
    IF BitLen(q) > Precision THEN <<BigShr(q, 1), drop + 1>> ELSE <<q, drop>>
RoundTies(q, drop, c, sticky) ==
    IF c > 0 \/ (c = 0 /\ (sticky \/ q[1] % 2 = 1))
    THEN RoundCarry(BigAdd(q, <<1>>), drop)
    ELSE <<q, drop>>
RoundDrop(M, sticky, drop, q) ==
    RoundTies(q, drop, BigCmp(BigSub(M, BigShl(q, drop)), BigShl(<<1>>, drop - 1)), sticky)
RoundLen(M, sticky, L) ==
    IF L <= Precision THEN <<BigShl(M, Precision - L), L - Precision>>
    ELSE RoundDrop(M, sticky, L - Precision, BigShr(M, L - Precision))
RoundBig(M, sticky) == RoundLen(M, sticky, BitLen(M))

MkRounded(s, e, r) == <<s, r[1], e + r[2]>>
MkFloat(s, M, e, sticky) ==
    IF M = << >> THEN FloatZero ELSE MkRounded(s, e, RoundBig(M, sticky))

\* float(n) for an int n, |n| < 2^31
FloatOfInt(n) ==
    MkFloat(IF n < 0 THEN 0 - 1 ELSE 1, BigOfNat(Abs(n)), 0, FALSE)

\* a * b
FloatMul(a, b) == MkFloat(a[1] * b[1], BigMul(a[2], b[2]), a[3] + b[3], FALSE)

\* a / b for b # 0
FloatOfQuotient(s, e, d) == MkFloat(s, d[1], e, d[2])
FloatDiv(a, b) ==
    IF a[1] = 0 THEN FloatZero
    ELSE FloatOfQuotient(a[1] * b[1], a[3] - b[3] - 4 * LimbBits,
                         BigDiv(ShiftLimbs(a[2], 4), b[2]))

\* a + b: the signs sa and sb, the magnitudes A and Bm in units of 2^e.
FloatAddSigned(sa, sb, A, Bm, e, c) ==
    IF sa = sb THEN MkFloat(sa, BigAdd(A, Bm), e, FALSE)
    ELSE IF c = 0 THEN FloatZero
    ELSE IF c > 0 THEN MkFloat(sa, BigSub(A, Bm), e, FALSE)
    ELSE MkFloat(sb, BigSub(Bm, A), e, FALSE)
FloatAddAligned(sa, sb, A, Bm, e) == FloatAddSigned(sa, sb, A, Bm, e, BigCmp(A, Bm))
FloatAddAt(a, b, e) ==
    FloatAddAligned(a[1], b[1], BigShl(a[2], a[3] - e), BigShl(b[2], b[3] - e), e)
FloatAdd(a, b) ==
    IF a[1] = 0 THEN b
    ELSE IF b[1] = 0 THEN a
    ELSE FloatAddAt(a, b, IF a[3] < b[3] THEN a[3] ELSE b[3])

\* 1, 0, -1 as |a| > |b|, |a| = |b|, |a| < |b|, for a and b not zero.
FloatCmpAbs(a, b) ==
    IF a[3] > b[3] THEN 1
    ELSE IF a[3] < b[3] THEN 0 - 1
    ELSE BigCmp(a[2], b[2])
\* a > b
FloatGT(a, b) ==
    IF a[1] # b[1] THEN a[1] > b[1]
    ELSE IF a[1] = 0 THEN FALSE
    ELSE IF a[1] > 0 THEN FloatCmpAbs(a, b) > 0
    ELSE FloatCmpAbs(a, b) < 0

\* Python's max(a, b): b only when b > a.
FloatMax(a, b) == IF FloatGT(b, a) THEN b ELSE a

\* int(x): truncation toward zero, for |x| < 2^31.
IntOfFloat(x) ==
    IF x[1] = 0 THEN 0
    ELSE IF x[3] >= 0 THEN x[1] * BigToNat(BigShl(x[2], x[3]))
    ELSE x[1] * BigToNat(BigShr(x[2], 0 - x[3]))

\* The float 0.5
Half == FloatDiv(FloatOfInt(1), FloatOfInt(2))

\* a // b of Python for b > 0: floor division.
FloorDiv(a, b) == a \div b

\* ------------------------------------------------------------ the resizer
\* line 117: the float MAX_LONGER_EDGE / MAX_SHORTER_EDGE
LongerRatio == FloatDiv(FloatOfInt(MAX_LONGER_EDGE), FloatOfInt(MAX_SHORTER_EDGE))

\* line 117: longer = int(MAX_LONGER_EDGE / MAX_SHORTER_EDGE * shorter)
LongerRounded(shorter) ==
    IntOfFloat(FloatAdd(FloatMul(LongerRatio, FloatOfInt(shorter)), Half))
Longer(shorter) == IntOfFloat(FloatMul(LongerRatio, FloatOfInt(shorter)))

\* lines 123-128: the new dimensions before the clamp, <<new_heights, new_widths>>.
ScaledEdge(edge, shorter, other) ==
    FloatMul(FloatOfInt(edge), FloatDiv(FloatOfInt(shorter), FloatOfInt(other)))
ScaledSize(heights, widths, shorter) ==
    IF heights < widths
    THEN <<FloatOfInt(shorter), ScaledEdge(widths, shorter, heights)>>
    ELSE <<ScaledEdge(heights, shorter, widths), FloatOfInt(shorter)>>

\* line 131: the test of the clamp.
ClampFires(new, longer) == FloatGT(FloatMax(new[1], new[2]), FloatOfInt(longer))

\* lines 133-134: both dimensions times scale.
Scaled(new, scale) == <<FloatMul(new[1], scale), FloatMul(new[2], scale)>>

\* lines 131-134: the long-edge clamp.
ClampedNever(new, longer) == new
Clamped(new, longer) ==
    IF ClampFires(new, longer)
    THEN Scaled(new, FloatDiv(FloatOfInt(longer), FloatMax(new[1], new[2])))
    ELSE new

\* lines 136-137: int(x + 0.5)
RoundHalf(x) == IntOfFloat(FloatAdd(x, Half))
Rounded(new) == <<RoundHalf(new[1]), RoundHalf(new[2])>>

\* lines 139-141: n // size_divisor * size_divisor when size_divisor is set.
FloorToDivisorSkipped(n, size_divisor) == n
FloorToDivisor(n, size_divisor) ==
    IF size_divisor # None
    THEN FloorDiv(n, size_divisor[1]) * size_divisor[1]
    ELSE n
Floored(new, size_divisor) ==
    <<FloorToDivisor(new[1], size_divisor), FloorToDivisor(new[2], size_divisor)>>

\* The [new_heights, new_widths] of lines 136-137, before the divisor flooring.
RoundedSize(heights, widths, shorter) ==
    Rounded(Clamped(ScaledSize(heights, widths, shorter), Longer(shorter)))

\* lines 116-141: the [new_heights, new_widths] handed to F.resize.
TargetSize(heights, widths, shorter, size_divisor) ==
    Floored(RoundedSize(heights, widths, shorter), size_divisor)

\* ------------------------------------------------------------ tensors
\* A (C, H, W) image tensor.  id is the position of the input image it was
\* made from, h and w its spatial shape, valid = <<top, left, height, width>>
\* the region holding image content (the rest is fill), ops the transforms
\* applied to it so far.
Image(i, h, w) ==
    [id |-> i, h |-> h, w |-> w, valid |-> <<0, 0, h, w>>, ops |-> << >>]

ShapeOf(image) == <<image.h, image.w>>

\* The value of pixel (r, c): <<id, r0, c0>> is the resampled/normalized
\* content pixel (r0, c0) of image id, <<0, 0, 0>> is the fill value 0.
PixelAt(image, r, c) ==
    IF /\ image.valid[1] <= r /\ r < image.valid[1] + image.valid[3]
       /\ image.valid[2] <= c /\ c < image.valid[2] + image.valid[4]
    THEN <<image.id, r - image.valid[1], c - image.valid[2]>>
    ELSE <<0, 0, 0>>

\* line 144: F.resize(stacked_images, [new_heights, new_widths]) on one image.
Resize(image, target) ==
    [image EXCEPT !.h = target[1], !.w = target[2],
                  !.valid = <<0, 0, target[1], target[2]>>,
                  !.ops = Append(@, "resize")]

\* line 144: the resize primitive (torch interpolation) raises a RuntimeError
\* for an output size that is not positive.
ResizeRaises(target) == target[1] <= 0 \/ target[2] <= 0

\* lines 156-158: self.rescale_and_normalize(...) on one image; the shape is kept.
RescaleAndNormalize(image, do_rescale, do_normalize) ==
    [image EXCEPT !.ops = @ \o (IF do_rescale THEN <<"rescale">> ELSE << >>)
                            \o (IF do_normalize THEN <<"normalize">> ELSE << >>)]

\* line 186: F.pad(image, [left, top, right, bottom], fill=0).
Pad(image, padding) ==
    [image EXCEPT !.h = @ + padding[2] + padding[4],
                  !.w = @ + padding[1] + padding[3],
                  !.valid = <<@[1] + padding[2], @[2] + padding[1], @[3], @[4]>>,
                  !.ops = Append(@, "pad")]

\* lines 181-183: padding = [0, 0, padding_right, padding_bottom]
Padding(original_size, max_size_) ==
    <<0, 0, max_size_[2] - original_size[2], max_size_[1] - original_size[1]>>

\* line 180: the test of whether padding is needed.
NeedsPadding(original_size, max_size_) ==
    original_size[1] # max_size_[1] \/ original_size[2] # max_size_[2]

\* An integer tensor of shape (H, W): its shape and its H rows, each a
\* sequence of W values; the element at row r and column c (from 0) is
\* rows[r + 1][c + 1].
Full(size, value) ==
    [shape |-> size,
     rows |-> [r \in 1 .. size[1] |-> [c \in 1 .. size[2] |-> value]]]
MaskAt(mask, r, c) == mask.rows[r + 1][c + 1]
MaskShape(mask) == mask.shape
\* line 173: torch.zeros(max_size)
Zeros(size) == Full(size, 0)
\* line 193: torch.ones(max_size)
OnesAsZeros(size) == Full(size, 0)
Ones(size) == Full(size, 1)
\* line 190: pixel_mask[: h0, : w0].fill_(1)
FillOnes(mask, original_size) ==
    [mask EXCEPT !.rows =
        [r \in 1 .. mask.shape[1] |->
            [c \in 1 .. mask.shape[2] |->
                IF r <= original_size[1] /\ c <= original_size[2] THEN 1
                ELSE mask.rows[r][c]]]]

\* --------------------------------------------- dicts (insertion ordered)
DictHas(d, key) == \E j \in 1 .. Len(d) : d[j].key = key
DictGet(d, key) == d[CHOOSE j \in 1 .. Len(d) : d[j].key = key].val
DictPut(d, key, val) ==
    IF DictHas(d, key)
    THEN [j \in 1 .. Len(d) |-> IF d[j].key = key THEN [key |-> key, val |-> val] ELSE d[j]]
    ELSE Append(d, [key |-> key, val |-> val])

\* group_images_by_shape(images): the groups in order of first occurrence and,
\* for each image, the <<shape, position in its group>> it went to.
RECURSIVE GroupFrom(_, _, _, _)
GroupFrom(imgs, i, grouped, index) ==
    IF i > Len(imgs) THEN <<grouped, index>>
    ELSE LET shape == ShapeOf(imgs[i])
             group == Append(IF DictHas(grouped, shape) THEN DictGet(grouped, shape)
                             ELSE << >>, imgs[i])
         IN  GroupFrom(imgs, i + 1, DictPut(grouped, shape, group),
                       Append(index, <<shape, Len(group)>>))

group_images_by_shape(imgs) == GroupFrom(imgs, 1, << >>, << >>)

\* reorder_images(processed, index): a missing group or position raises.
ReorderRaises(processed, index) ==
    \E i \in 1 .. Len(index) :
        \/ ~DictHas(processed, index[i][1])
        \/ index[i][2] > Len(DictGet(processed, index[i][1]))
reorder_images(processed, index) ==
    [i \in 1 .. Len(index) |-> DictGet(processed, index[i][1])[index[i][2]]]

\* get_max_height_width(images)
MaxOf(S) ==
    IF S = {} THEN 0 ELSE CHOOSE y \in S : \A z \in S : z <= y
get_max_height_width(imgs) ==
    <<MaxOf({imgs[i].h : i \in 1 .. Len(imgs)}), MaxOf({imgs[i].w : i \in 1 .. Len(imgs)})>>

\* torch.stack(tensors): an empty list raises, and so do tensors of unequal
\* shape.
StackRaises(imgs) ==
    \/ Len(imgs) = 0
    \/ \E i, j \in 1 .. Len(imgs) : ShapeOf(imgs[i]) # ShapeOf(imgs[j])

\* line 146 / line 159: the key a processed group is stored under.
GroupKeyOfResult(shape, stacked_images) == ShapeOf(stacked_images[1])
GroupKey(shape, stacked_images) == shape

\* ------------------------------------------------------------------ state
VARIABLES
    images,                  \* the argument images: list of tensors
    args,                    \* the other arguments of the call
    pc,                      \* where the call is
    k,                       \* iterations done of the loop the call is in
    grouped_images,          \* locals of _preprocess, << >> while unbound
    grouped_images_index,
    resized_images_grouped,
    resized_images,
    processed_images_grouped,
    processed_images,
    max_size,
    mask_template,           \* None while unbound, Some(tensor) once assigned
    padded_images,
    pixel_masks,
    data,                    \* the BatchFeature returned
    err,                     \* the exception the call ended with
    resize_calls             \* every call of F.resize so far

locals == <<grouped_images, grouped_images_index, resized_images_grouped,
            resized_images, processed_images_grouped, processed_images>>
padvars == <<max_size, mask_template, padded_images, pixel_masks>>
vars == <<images, args, pc, k, locals, padvars, data, err, resize_calls>>

NoData == [keys |-> {}, pixel_values |-> << >>, pixel_mask |-> << >>, stacked |-> FALSE]

\* ------------------------------------------------------------------ inputs
BatchShapes == {<<1, 2>>, <<2, 4>>, <<2, 1>>}
ExampleBatch == <<Image(1, 200, 300), Image(2, 400, 300)>>
ExampleShapes == {<<200, 300>>, <<400, 300>>, <<10, 300>>}

Batches ==
    UNION {{[i \in 1 .. n |-> Image(i, shapes[i][1], shapes[i][2])] :
                shapes \in [1 .. n -> BatchShapes]} : n \in 1 .. MaxBatch}

\* The shapes and the configurations of the batches Init draws.
BatchInputs ==
    {<<shape[1], shape[2], size, size_divisor>> :
        shape \in BatchShapes, size \in (0 - NegS) .. MaxBatchS,
        size_divisor \in {None} \cup {Some(d) : d \in 1 .. MaxBatchD}}
    \cup
    {<<ExampleBatch[i].h, ExampleBatch[i].w, DefaultShortestEdge, Some(DefaultSizeDivisor)>> :
        i \in 1 .. Len(ExampleBatch)}

\* TargetSize on those, computed once.
BatchTargets == {<<p, TargetSize(p[1], p[2], p[3], p[4])>> : p \in BatchInputs}

\* The value table holds for key, and default when it holds none.
Lookup(table, key, default) ==
    IF \E e \in table : e[1] = key
    THEN (CHOOSE e \in table : e[1] = key)[2]
    ELSE default

\* TargetSize(heights, widths, shorter, size_divisor), read from BatchTargets
\* when it is there.
TargetSizeOf(heights, widths, shorter, size_divisor) ==
    Lookup(BatchTargets, <<heights, widths, shorter, size_divisor>>,
           TargetSize(heights, widths, shorter, size_divisor))

Args(do_resize, size, size_divisor, do_rescale, do_normalize, do_pad, return_tensors) ==
    [do_resize |-> do_resize, size |-> size, size_divisor |-> size_divisor,
     do_rescale |-> do_rescale, do_normalize |-> do_normalize,
     do_pad |-> do_pad, return_tensors |-> return_tensors]

ReturnTensors == {"pt", "None"}

Start ==
    /\ pc = "start"
    /\ k = 0
    /\ grouped_images = << >>
    /\ grouped_images_index = << >>
    /\ resized_images_grouped = << >>
    /\ resized_images = << >>
    /\ processed_images_grouped = << >>
    /\ processed_images = << >>
    /\ max_size = <<0, 0>>
    /\ mask_template = None
    /\ padded_images = << >>
    /\ pixel_masks = << >>
    /\ data = NoData
    /\ err = "none"
    /\ resize_calls = << >>

\* A call of _preprocess on a small batch, or on the batch of the end-to-end
\* example under the default configuration.
Init ==
    /\ \/ /\ images \in Batches
          /\ \E do_resize, do_rescale, do_normalize, do_pad \in BOOLEAN,
                size \in (0 - NegS) .. MaxBatchS,
                size_divisor \in {None} \cup {Some(d) : d \in 1 .. MaxBatchD},
                return_tensors \in ReturnTensors :
                args = Args(do_resize, size, size_divisor, do_rescale, do_normalize,
                            do_pad, return_tensors)
       \/ /\ images = ExampleBatch
          /\ \E return_tensors \in ReturnTensors :
                args = Args(TRUE, DefaultShortestEdge, Some(DefaultSizeDivisor),
                            TRUE, TRUE, TRUE, return_tensors)
    /\ Start

\* ----------------------------------------------------------------- actions
\* lines 106-111
GroupImages ==
    /\ pc = "start"
    /\ LET g == group_images_by_shape(images)
       IN  /\ grouped_images' = g[1]
           /\ grouped_images_index' = g[2]
    /\ resized_images_grouped' = << >>
    /\ k' = 0
    /\ pc' = "resize"
    /\ UNCHANGED <<images, args, resized_images, processed_images_grouped,
                   processed_images, padvars, data, err, resize_calls>>

\* line 144 on every image of the group.
ResizeAll(stacked_images, target) ==
    [i \in 1 .. Len(stacked_images) |-> Resize(stacked_images[i], target)]

\* lines 144-146: the group resized to target and stored.
ResizeStacked(shape, stacked_images, target) ==
    /\ resize_calls' = Append(resize_calls,
            [shape |-> shape, longer |-> Longer(args.size), target |-> target])
    /\ IF ResizeRaises(target)
       THEN /\ pc' = "raised"
            /\ err' = "ResizeError"
            /\ UNCHANGED <<resized_images_grouped, k>>
       ELSE /\ resized_images_grouped' =
                   DictPut(resized_images_grouped,
                           GroupKey(shape, ResizeAll(stacked_images, target)),
                           ResizeAll(stacked_images, target))
            /\ k' = k + 1
            /\ UNCHANGED <<pc, err>>

\* lines 113-146: one iteration of the resize loop.
ResizeGroup ==
    /\ pc = "resize"
    /\ k < Len(grouped_images)
    /\ LET shape == grouped_images[k + 1].key
           stacked_images == grouped_images[k + 1].val
       IN  IF args.do_resize
           THEN ResizeStacked(shape, stacked_images,
                    TargetSizeOf(shape[1], shape[2], args.size, args.size_divisor))
           ELSE /\ resized_images_grouped' =
                       DictPut(resized_images_grouped, GroupKey(shape, stacked_images),
                               stacked_images)
                /\ k' = k + 1
                /\ UNCHANGED <<pc, err, resize_calls>>
    /\ UNCHANGED <<images, args, grouped_images, grouped_images_index, resized_images,
                   processed_images_grouped, processed_images, padvars, data>>

\* lines 148-152
ReorderResized ==
    /\ pc = "resize"
    /\ k = Len(grouped_images)
    /\ IF ReorderRaises(resized_images_grouped, grouped_images_index)
       THEN /\ pc' = "raised"
            /\ err' = "KeyError"
            /\ UNCHANGED <<k, grouped_images, grouped_images_index, resized_images,
                           processed_images_grouped>>
       ELSE LET reordered == reorder_images(resized_images_grouped, grouped_images_index)
                g == group_images_by_shape(reordered)
            IN  /\ resized_images' = reordered
                /\ grouped_images' = g[1]
                /\ grouped_images_index' = g[2]
                /\ processed_images_grouped' = << >>
                /\ k' = 0
                /\ pc' = "normalize"
                /\ UNCHANGED err
    /\ UNCHANGED <<images, args, resized_images_grouped, processed_images, padvars,
                   data, resize_calls>>

\* lines 154-159: one iteration of the rescale/normalize loop.
NormalizeGroup ==
    /\ pc = "normalize"
    /\ k < Len(grouped_images)
    /\ LET shape == grouped_images[k + 1].key
           stacked_images == grouped_images[k + 1].val
           out == [i \in 1 .. Len(stacked_images) |->
                      RescaleAndNormalize(stacked_images[i], args.do_rescale,
                                          args.do_normalize)]
       IN  processed_images_grouped' =
               DictPut(processed_images_grouped, GroupKey(shape, out), out)
    /\ k' = k + 1
    /\ UNCHANGED <<images, args, pc, grouped_images, grouped_images_index,
                   resized_images_grouped, resized_images, processed_images, padvars,
                   data, err, resize_calls>>

\* line 161, and the branch of line 165
ReorderProcessed ==
    /\ pc = "normalize"
    /\ k = Len(grouped_images)
    /\ IF ReorderRaises(processed_images_grouped, grouped_images_index)
       THEN /\ pc' = "raised"
            /\ err' = "KeyError"
            /\ UNCHANGED processed_images
       ELSE /\ processed_images' =
                   reorder_images(processed_images_grouped, grouped_images_index)
            /\ pc' = IF args.do_pad THEN "pad_setup" ELSE "no_pad"
            /\ UNCHANGED err
    /\ UNCHANGED <<images, args, k, grouped_images, grouped_images_index,
                   resized_images_grouped, resized_images, processed_images_grouped,
                   padvars, data, resize_calls>>

\* lines 166-173
PadSetup ==
    /\ pc = "pad_setup"
    /\ max_size' = get_max_height_width(processed_images)
    /\ padded_images' = << >>
    /\ pixel_masks' = << >>
    /\ mask_template' =
           IF args.return_tensors = "pt" /\ Len(processed_images) > 0
           THEN Some(Zeros(max_size'))
           ELSE mask_template
    /\ k' = 0
    /\ pc' = "pad"
    /\ UNCHANGED <<images, args, locals, data, err, resize_calls>>

\* lines 175-196: one iteration of the padding loop.
PadImage ==
    /\ pc = "pad"
    /\ k < Len(processed_images)
    /\ LET image == processed_images[k + 1]
           original_size == ShapeOf(image)
       IN  IF NeedsPadding(original_size, max_size)
           THEN IF mask_template = None
                THEN /\ pc' = "raised"
                     /\ err' = "UnboundLocalError"
                     /\ UNCHANGED <<k, padded_images, pixel_masks>>
                ELSE /\ padded_images' =
                            Append(padded_images, Pad(image, Padding(original_size, max_size)))
                     /\ pixel_masks' =
                            Append(pixel_masks, FillOnes(mask_template[1], original_size))
                     /\ k' = k + 1
                     /\ UNCHANGED <<pc, err>>
           ELSE /\ padded_images' = Append(padded_images, image)
                /\ pixel_masks' = Append(pixel_masks, Ones(max_size))
                /\ k' = k + 1
                /\ UNCHANGED <<pc, err>>
    /\ UNCHANGED <<images, args, locals, max_size, mask_template, data, resize_calls>>

\* lines 198-204 and 211
ReturnPadded ==
    /\ pc = "pad"
    /\ k = Len(processed_images)
    /\ IF args.return_tensors = "pt" /\ StackRaises(padded_images)
       THEN /\ pc' = "raised"
            /\ err' = "StackError"
            /\ UNCHANGED data
       ELSE /\ data' = [keys |-> {"pixel_values", "pixel_mask"},
                        pixel_values |-> padded_images,
                        pixel_mask |-> pixel_masks,
                        stacked |-> (args.return_tensors = "pt")]
            /\ pc' = "done"
            /\ UNCHANGED err
    /\ UNCHANGED <<images, args, k, locals, padvars, resize_calls>>

\* lines 205-211
ReturnUnpadded ==
    /\ pc = "no_pad"
    /\ IF args.return_tensors = "pt" /\ StackRaises(processed_images)
       THEN /\ pc' = "raised"
            /\ err' = "StackError"
            /\ UNCHANGED data
       ELSE /\ data' = [keys |-> {"pixel_values"},
                        pixel_values |-> processed_images,
                        pixel_mask |-> << >>,
                        stacked |-> (args.return_tensors = "pt")]
            /\ pc' = "done"
            /\ UNCHANGED err
    /\ UNCHANGED <<images, args, k, locals, padvars, resize_calls>>

Next ==
    \/ GroupImages
    \/ ResizeGroup
    \/ ReorderResized
    \/ NormalizeGroup
    \/ ReorderProcessed
    \/ PadSetup
    \/ PadImage
    \/ ReturnPadded
    \/ ReturnUnpadded

Spec == Init /\ [][Next]_vars

\* ------------------------------------- the resizer alone, on a wider grid
ResizeShapes == ((1 .. MaxDim) \X (1 .. MaxDim)) \cup ExampleShapes

InitResize ==
    /\ \E shape \in ResizeShapes : images = <<Image(1, shape[1], shape[2])>>
    /\ \E size \in (1 .. MaxS) \cup {DefaultShortestEdge},
          size_divisor \in {None} \cup {Some(d) : d \in (1 .. MaxD) \cup {DefaultSizeDivisor}} :
          args = Args(TRUE, size, size_divisor, TRUE, TRUE, TRUE, "pt")
    /\ Start

NextResize ==
    \/ GroupImages
    \/ ResizeGroup

SpecResize == InitResize /\ [][NextResize]_vars

\* ------------------------------------------------------------ properties
Finished == pc \in {"done", "raised"}

\* processed_images (line 161) has been built.
ProcessedBatchBuilt ==
    \/ pc \in {"pad_setup", "pad", "no_pad", "done"}
    \/ pc = "raised" /\ err \in {"UnboundLocalError", "StackError"}

Max2(a, b) == IF a > b THEN a ELSE b

\* round(1333 / 800 * S): the integer nearest to 1333 * S / 800.
NearestLonger(S) == (2 * MAX_LONGER_EDGE * S + MAX_SHORTER_EDGE) \div (2 * MAX_SHORTER_EDGE)

Calls == 1 .. Len(resize_calls)
DivisorSet == args.size_divisor # None

\* C1: with do_resize enabled, S > 0 and a size_divisor D > 0, the height and
\* the width handed to the resize primitive are non-negative multiples of D.
C1_TargetsAreMultiplesOfDivisor ==
    \A j \in Calls :
        (args.do_resize /\ args.size > 0 /\ DivisorSet) =>
            LET t == resize_calls[j].target
                D == args.size_divisor[1]
            IN  /\ t[1] >= 0 /\ t[1] % D = 0
                /\ t[2] >= 0 /\ t[2] % D = 0

\* The height r[1] of the rounded size is not a multiple of D and t is r
\* floored to a positive size.
FlooredBelow(r, t, D) ==
    /\ r[1] % D # 0
    /\ t[1] > 0 /\ t[1] < r[1] /\ t[2] > 0

\* A resize call whose rounded size was not a multiple of the divisor and was
\* floored to a positive one.
C1_Witness ==
    \E j \in Calls :
        /\ DivisorSet /\ args.size > 0
        /\ FlooredBelow(RoundedSize(resize_calls[j].shape[1], resize_calls[j].shape[2],
                                    args.size),
                        resize_calls[j].target, args.size_divisor[1])

\* C2: with do_resize enabled and S > 0, the larger dimension handed to the
\* resize primitive is at most round(1333/800 * S) + 1, in both branches,
\* clamped or not, with or without a size_divisor.
C2_LongEdgeBounded ==
    \A j \in Calls :
        (args.do_resize /\ args.size > 0) =>
            Max2(resize_calls[j].target[1], resize_calls[j].target[2])
                <= NearestLonger(args.size) + 1

\* A resize call of the h >= w branch in which the clamp fired and the long
\* edge came out at the bound the code uses.
C2_Witness ==
    \E j \in Calls :
        LET sh == resize_calls[j].shape
        IN  /\ args.size > 1
            /\ sh[1] >= sh[2]
            /\ ClampFires(ScaledSize(sh[1], sh[2], args.size), Longer(args.size))
            /\ resize_calls[j].target[1] = Longer(args.size)

\* C7: for S >= D > 0 (the default 384 and 32 among them) the height and the
\* width handed to the resize primitive are both positive, whatever the
\* aspect ratio.
C7_TargetsPositive ==
    \A j \in Calls :
        (args.do_resize /\ DivisorSet /\ args.size_divisor[1] > 0
            /\ args.size >= args.size_divisor[1]) =>
            /\ resize_calls[j].target[1] > 0
            /\ resize_calls[j].target[2] > 0

\* C9 as stated: for S > 0 the longer-edge bound used by the clamp is
\* round(1333/800 * S).
C9_LongerIsNearest ==
    \A j \in Calls :
        args.size > 0 => resize_calls[j].longer = NearestLonger(args.size)

\* C9 as amended: for S > 0 the longer-edge bound used by the clamp test and
\* the clamp scale is int(1333/800 * S), the integer part of 1333 * S / 800:
\* the bound computed is that integer, and a clamped long edge (before any
\* divisor flooring) is exactly it.
C9_LongerIsTruncated ==
    \A j \in Calls :
        args.size > 0 =>
            LET sh == resize_calls[j].shape
                bound == (MAX_LONGER_EDGE * args.size) \div MAX_SHORTER_EDGE
                t == resize_calls[j].target
            IN  /\ resize_calls[j].longer = bound
                /\ (~DivisorSet /\ (sh[1] * args.size > bound * sh[2]
                                      \/ sh[2] * args.size > bound * sh[1]))
                       => Max2(t[1], t[2]) = bound

\* The default shortest edge 384 with a clamped image: the bound is 639.
C9_Witness ==
    \E j \in Calls :
        /\ args.size = DefaultShortestEdge
        /\ ~DivisorSet
        /\ resize_calls[j].longer = 639
        /\ Max2(resize_calls[j].target[1], resize_calls[j].target[2]) = 639

PixelValues == data.pixel_values
PixelMask == data.pixel_mask
N == Len(images)

\* C3: with do_pad enabled, for every processed batch and both output modes
\* the call completes, and every image of pixel_values has spatial shape
\* max_size and a pixel_mask entry of that shape.
C3_PaddingCompletes ==
    (Finished /\ args.do_pad /\ args.size > 0 /\ ProcessedBatchBuilt) =>
        /\ pc = "done"
        /\ Len(PixelValues) = N
        /\ Len(PixelMask) = N
        /\ max_size = get_max_height_width(processed_images)
        /\ \A i \in 1 .. N :
              /\ ShapeOf(PixelValues[i]) = max_size
              /\ MaskShape(PixelMask[i]) = max_size

\* The mask value the claim gives position (r, c) for an image of size (h0, w0).
ExactMask(mask, original_size) ==
    \A r \in 0 .. max_size[1] - 1 : \A c \in 0 .. max_size[2] - 1 :
        MaskAt(mask, r, c) = IF r < original_size[1] /\ c < original_size[2] THEN 1 ELSE 0

\* C4: with do_pad enabled, every image of the processed batch has a
\* pixel_mask that is 1 exactly on its own h0 x w0 extent within the H x W
\* grid, and its padding lies at the bottom and the right only.
C4_MaskExact ==
    (Finished /\ args.do_pad /\ args.size > 0 /\ ProcessedBatchBuilt) =>
        /\ Len(PixelMask) = N
        /\ Len(PixelValues) = N
        /\ \A i \in 1 .. N :
              LET original_size == ShapeOf(processed_images[i])
              IN  /\ MaskShape(PixelMask[i]) = max_size
                  /\ ExactMask(PixelMask[i], original_size)
                  /\ PixelValues[i].valid = <<0, 0, original_size[1], original_size[2]>>

\* What processing makes of the i-th input image (lines 113-159).
Processed(image) ==
    RescaleAndNormalize(
        IF args.do_resize
        THEN Resize(image, TargetSizeOf(image.h, image.w, args.size, args.size_divisor))
        ELSE image,
        args.do_rescale, args.do_normalize)

\* The mask belongs to an image of this size: 1 at its last pixel, 0 right
\* below and right beside its extent.
MaskOfSize(mask, size) ==
    /\ MaskAt(mask, size[1] - 1, size[2] - 1) = 1
    /\ size[1] < max_size[1] => MaskAt(mask, size[1], 0) = 0
    /\ size[2] < max_size[2] => MaskAt(mask, 0, size[2]) = 0

\* C5: grouping by shape and reordering never loses a group, the i-th
\* resized and the i-th processed image are made from the i-th input image,
\* so are the i-th entries of pixel_values and pixel_mask, and with resize,
\* rescale and normalize disabled the processed sequence is the input sequence.
C5_OrderPreserved ==
    /\ err # "KeyError"
    /\ pc = "normalize" =>
          /\ Len(resized_images) = N
          /\ \A i \in 1 .. N : resized_images[i].id = i
    /\ ProcessedBatchBuilt =>
          /\ Len(processed_images) = N
          /\ \A i \in 1 .. N : processed_images[i] = Processed(images[i])
          /\ (~args.do_resize /\ ~args.do_rescale /\ ~args.do_normalize)
                => processed_images = images
    /\ pc = "done" =>
          /\ Len(PixelValues) = N
          /\ \A i \in 1 .. N :
                /\ PixelValues[i].id = i
                /\ PixelAt(PixelValues[i], 0, 0) = <<i, 0, 0>>
          /\ args.do_pad =>
                /\ Len(PixelMask) = N
                /\ \A i \in 1 .. N : MaskOfSize(PixelMask[i], ShapeOf(processed_images[i]))

\* A completed call on three images, the first and the third of one shape
\* and the second of another, all resized to the same shape.
C5_Witness ==
    /\ pc = "done"
    /\ args.do_resize /\ args.do_pad
    /\ N = 3
    /\ ShapeOf(images[1]) = ShapeOf(images[3])
    /\ ShapeOf(images[1]) # ShapeOf(images[2])
    /\ ShapeOf(processed_images[1]) = ShapeOf(processed_images[2])

\* The divisor flooring leaves some image of the batch a target dimension of 0.
HasZero(t) == t[1] = 0 \/ t[2] = 0
ZeroSizeTarget ==
    \E i \in 1 .. N :
        HasZero(TargetSizeOf(images[i].h, images[i].w, args.size, args.size_divisor))

\* C6: a call with shortest_edge <= 0, or one whose targets are floored to a
\* zero height or width, fails with an error and returns nothing.
C6_InvalidConfigurationRejected ==
    (Finished /\ (args.size <= 0 \/ (args.do_resize /\ args.size > 0 /\ ZeroSizeTarget))) =>
        /\ pc = "raised"
        /\ data = NoData

\* C8: the end-to-end example (200x300 and 400x300, shortest_edge 384,
\* size_divisor 32, do_resize and do_pad): targets (384, 576) and (512, 384),
\* padded size (512, 576), mask 1 on rows < 384 for image 1 and on columns
\* < 384 for image 2, 0 elsewhere.
C8_EndToEndExample ==
    (/\ Finished
     /\ images = ExampleBatch
     /\ args.do_resize /\ args.do_pad
     /\ args.size = DefaultShortestEdge
     /\ args.size_divisor = Some(DefaultSizeDivisor)) =>
        /\ Len(resize_calls) = 2
        /\ resize_calls[1].target = <<384, 576>>
        /\ resize_calls[2].target = <<512, 384>>
        /\ max_size = <<512, 576>>
        /\ Len(PixelMask) = 2
        /\ \A r \in 0 .. 511 : \A c \in 0 .. 575 :
              /\ MaskAt(PixelMask[1], r, c) = IF r < 384 THEN 1 ELSE 0
              /\ MaskAt(PixelMask[2], r, c) = IF c < 384 THEN 1 ELSE 0

AllOfMaxSize ==
    \A i \in 1 .. Len(processed_images) : ShapeOf(processed_images[i]) = max_size

\* C10: with do_pad enabled and every processed image already of size
\* max_size, in the list and in the stacked mode alike the call completes,
\* every image is emitted as it is and every pixel_mask is all ones of shape
\* max_size.
C10_PaddingIdempotent ==
    (Finished /\ args.do_pad /\ ProcessedBatchBuilt /\ AllOfMaxSize) =>
        /\ pc = "done"
        /\ PixelValues = processed_images
        /\ Len(PixelMask) = N
        /\ \A i \in 1 .. N :
              /\ MaskShape(PixelMask[i]) = max_size
              /\ \A r \in 0 .. max_size[1] - 1 : \A c \in 0 .. max_size[2] - 1 :
                    MaskAt(PixelMask[i], r, c) = 1

\* A completed list-mode call on two or more resized images of one size.
C10_Witness ==
    /\ pc = "done"
    /\ args.do_pad /\ args.do_resize
    /\ args.return_tensors = "None"
    /\ N >= 2
    /\ AllOfMaxSize
    /\ max_size[1] * max_size[2] > 1

====
